---- MODULE Spec2Model ----
(***************************************************************************)
(* Model of pkg/sql/distsqlpb/data.go: the ordering codec                  *)
(* (ConvertToColumnOrdering, ConvertToSpecOrdering,                        *)
(* ConvertToMappedSpecOrdering) and the error envelope (NewError,          *)
(* Error.ErrorDetail, Error.String).                                       *)
(*                                                                         *)
(* Integers of the program are wider than the integers of the model        *)
(* checker, so an integer n is held as the pair <<hi, lo>> with            *)
(* n = hi * 2^16 + lo and 0 <= lo < 2^16.  A uint32 has 0 <= hi < 2^16;    *)
(* an int (64 bits) has a signed hi.                                       *)
(***************************************************************************)
EXTENDS Integers, Sequences, FiniteSets, TLC

\* ------------------------------------------------------------------ bounds
\* Longest ordering (number of sort columns) that is explored.
MaxLen == 2
\* Longest planToStreamColMap that is explored.
MaxMapLen == 2
\* Largest small column index that is explored (besides the edge values).
MaxCol == 1

\* ---------------------------------------------------------------- integers
Limb == 2^16

\* The pair that holds the small integer n.
IntVal(n) == <<n \div Limb, n % Limb>>

\* uint32(v) of an int v: keeps the low 32 bits.
Uint32(v) == <<v[1] % Limb, v[2]>>

\* int(u) of a uint32 u: int is 64 bits wide, so the value is kept.
IntOfUint32(u) == <<u[1], u[2]>>

\* 0 <= v < 2^32: the ints a uint32 can hold.
FitsUint32(v) == v[1] >= 0 /\ v[1] < Limb

MinusOne == IntVal(-1)

\* ------------------------------------------------------------- directions
\* encoding.Direction values named by the source.
Ascending == "Ascending"
Descending == "Descending"
\* Ordering_Column_Direction values named by the source, and a value of the
\* enum's integer type that names no direction.
Ordering_Column_ASC == "ASC"
Ordering_Column_DESC == "DESC"
Ordering_Column_Unrecognised == "2"

\* --------------------------------------------------------------- results
NoPanic == ""
NotRun == [state |-> "not run"]
Returned(v) == [state |-> "returned", val |-> v]
Panicked(msg) == [state |-> "panicked", msg |-> msg]

\* A nil planToStreamColMap.
NilMap == [nil |-> TRUE]
SomeMap(m) == [nil |-> FALSE, elems |-> m]

VARIABLES
  columnOrdering,       \* the planner's sqlbase.ColumnOrdering
  planToStreamColMap,   \* the planner's remap, or NilMap
  specOrdering,         \* the wire Ordering at hand
  specFrom,             \* who produced specOrdering
  ordering,             \* what ConvertToColumnOrdering returned for it
  err,                  \* the error a remote fragment failed with
  envelope,             \* the *Error at hand
  envFrom,              \* who produced envelope
  detail,               \* what ErrorDetail returned for it
  rendered,             \* what String returned for it
  expression,           \* the Expression at hand
  exprString,           \* what Expression.String returned for it
  exprEmpty,            \* what Expression.Empty returned for it
  op,                   \* the operation that ran last
  panicked              \* the panic that aborted the operation, or NoPanic

vars == <<columnOrdering, planToStreamColMap, specOrdering, specFrom, ordering,
          err, envelope, envFrom, detail, rendered,
          expression, exprString, exprEmpty, op, panicked>>

orderingVars == <<columnOrdering, planToStreamColMap, specOrdering, specFrom, ordering>>
errorVars == <<err, envelope, envFrom, detail, rendered>>
exprVars == <<expression, exprString, exprEmpty>>

\* -------------------------------------------------------- ordering codec
\* Mutation of ConvertToColumnOrdering: only DESC decodes as Descending.
ConvertToColumnOrdering_DescOnly(spec) ==
  [i \in 1..Len(spec.Columns) |->
     [ColIdx |-> IntOfUint32(spec.Columns[i].ColIdx),
      Direction |-> IF spec.Columns[i].Direction = Ordering_Column_DESC
                    THEN Descending ELSE Ascending]]

ConvertToColumnOrdering(spec) ==
  [i \in 1..Len(spec.Columns) |->
     [ColIdx |-> IntOfUint32(spec.Columns[i].ColIdx),
      Direction |-> IF spec.Columns[i].Direction = Ordering_Column_ASC
                    THEN Ascending ELSE Descending]]

\* planToStreamColMap[c.ColIdx] is an index expression: it needs
\* 0 <= c.ColIdx < len(planToStreamColMap), else the runtime panics.
InRange(idx, m) == idx[1] = 0 /\ idx[2] < Len(m.elems)

MapLookup(m, idx) == m.elems[idx[2] + 1]

\* The column index written for column c, or the panic raised for it.
MappedColIdx(c, m) ==
  IF m = NilMap THEN Returned(c.ColIdx)
  ELSE IF ~InRange(c.ColIdx, m) THEN Panicked("index out of range")
  ELSE IF MapLookup(m, c.ColIdx) = MinusOne
       THEN Panicked("column in sort ordering not available")
  ELSE Returned(MapLookup(m, c.ColIdx))

SpecDirection(c) ==
  IF c.Direction = Ascending THEN Ordering_Column_ASC ELSE Ordering_Column_DESC

\* Mutation of ConvertToMappedSpecOrdering: the -1 entry is written, not refused.
ConvertToMappedSpecOrdering_NoCheck(colOrdering, m) ==
  LET n == Len(colOrdering)
      ix(i) == IF m = NilMap THEN Returned(colOrdering[i].ColIdx)
               ELSE IF ~InRange(colOrdering[i].ColIdx, m) THEN Panicked("index out of range")
               ELSE Returned(MapLookup(m, colOrdering[i].ColIdx))
      bad == {i \in 1..n : ix(i).state = "panicked"}
  IN IF bad # {}
     THEN ix(CHOOSE i \in bad : \A j \in bad : i <= j)
     ELSE Returned([Columns |->
            [i \in 1..n |-> [ColIdx |-> Uint32(ix(i).val),
                             Direction |-> SpecDirection(colOrdering[i])]]])

\* Mutation of ConvertToMappedSpecOrdering: every column is written as ASC.
ConvertToMappedSpecOrdering_AllAsc(colOrdering, m) ==
  LET n == Len(colOrdering)
      bad == {i \in 1..n : MappedColIdx(colOrdering[i], m).state = "panicked"}
  IN IF bad # {}
     THEN MappedColIdx(colOrdering[CHOOSE i \in bad : \A j \in bad : i <= j], m)
     ELSE Returned([Columns |->
            [i \in 1..n |-> [ColIdx |-> Uint32(MappedColIdx(colOrdering[i], m).val),
                             Direction |-> Ordering_Column_ASC]]])

\* The loop stops at the first column whose lookup panics.
ConvertToMappedSpecOrdering(colOrdering, m) ==
  LET n == Len(colOrdering)
      bad == {i \in 1..n : MappedColIdx(colOrdering[i], m).state = "panicked"}
  IN IF bad # {}
     THEN MappedColIdx(colOrdering[CHOOSE i \in bad : \A j \in bad : i <= j], m)
     ELSE Returned([Columns |->
            [i \in 1..n |-> [ColIdx |-> Uint32(MappedColIdx(colOrdering[i], m).val),
                             Direction |-> SpecDirection(colOrdering[i])]]])

ConvertToSpecOrdering(colOrdering) ==
  ConvertToMappedSpecOrdering(colOrdering, NilMap)

\* ------------------------------------------------------- input domains
\* Column indices an int can hold: -1, the small indices, 2^32 - 1 and 2^32.
IntColIdxs == {MinusOne, <<Limb - 1, Limb - 1>>, <<Limb, 0>>} \cup {IntVal(k) : k \in 0..MaxCol}
\* Column indices a uint32 can hold.
Uint32ColIdxs == {<<Limb - 1, Limb - 1>>} \cup {IntVal(k) : k \in 0..MaxCol}
\* Entries of a remap: a stream column index, or -1 for "not in the stream".
MapEntries == {MinusOne} \cup {IntVal(k) : k \in 0..MaxCol}

SeqsUpTo(S, n) == UNION {[1..k -> S] : k \in 0..n}

ColumnOrderings ==
  SeqsUpTo([ColIdx : IntColIdxs, Direction : {Ascending, Descending}], MaxLen)
ColMaps == {NilMap} \cup {SomeMap(m) : m \in SeqsUpTo(MapEntries, MaxMapLen)}
WireOrderings ==
  {[Columns |-> s] : s \in SeqsUpTo([ColIdx : Uint32ColIdxs,
       Direction : {Ordering_Column_ASC, Ordering_Column_DESC,
                    Ordering_Column_Unrecognised}], MaxLen)}

EmptySpec == [Columns |-> << >>]

\* ------------------------------------------------------- error envelope
\* pgerror.CodeInternalError, and some other code.
CodeInternalError == "XX000"
CodeSyntaxError == "42601"

Messages == {"boom", "restart transaction"}
PGErrors == [Code : {CodeInternalError, CodeSyntaxError}, Message : Messages]

\* No *pgerror.Error in the cause chain.
NoPGCause == [Code |-> "", Message |-> ""]

\* Dynamic types of a (non-nil) error value.
TypePGError == "*pgerror.Error"
TypeRetryable == "*roachpb.UnhandledRetryableError"
TypeOther == "*errors.fundamental"

\* A non-nil error value: its dynamic type, the *pgerror.Error at the root of
\* its cause chain (or NoPGCause) and the text of Error().  A *pgerror.Error
\* is its own cause and its text is its Message.
Errors ==
  {[dyn |-> TypePGError, cause |-> c, msg |-> c.Message] : c \in PGErrors}
  \cup [dyn : {TypeRetryable, TypeOther}, cause : PGErrors \cup {NoPGCause}, msg : Messages]

\* The nil error.
NilErr == [dyn |-> "nil", cause |-> NoPGCause, msg |-> ""]

\* A *pgerror.Error held in an error interface.
PGAsError(c) == [dyn |-> TypePGError, cause |-> c, msg |-> c.Message]

\* pgerror.GetPGCause(err): the cause, and whether there is one.
GetPGCause(e) == [pgErr |-> e.cause, ok |-> e.cause # NoPGCause]

\* pgerror.NewError(code, msg).
PGNewError(code, msg) == [Code |-> code, Message |-> msg]

\* err.Error().
ErrorText(e) == e.msg

\* Values of the Detail field: the two variants, no detail, and any other
\* implementation of the detail interface.
Error_PGError(pg) == [kind |-> "Error_PGError", PGError |-> pg, RetryableTxnError |-> NilErr]
Error_RetryableTxnError(r) == [kind |-> "Error_RetryableTxnError", PGError |-> NoPGCause, RetryableTxnError |-> r]
NoDetail == [kind |-> "nil", PGError |-> NoPGCause, RetryableTxnError |-> NilErr]
ForeignDetail == [kind |-> "foreign", PGError |-> NoPGCause, RetryableTxnError |-> NilErr]

\* A nil *Error, and &Error{Detail: d}.
NilError == [nil |-> TRUE, Detail |-> NoDetail]
ErrorOf(d) == [nil |-> FALSE, Detail |-> d]

\* Mutation of NewError: the retryable shape is tested first.
NewError_RetryFirst(e) ==
  IF e.dyn = TypeRetryable THEN ErrorOf(Error_RetryableTxnError(e))
  ELSE IF GetPGCause(e).ok THEN ErrorOf(Error_PGError(GetPGCause(e).pgErr))
  ELSE ErrorOf(Error_PGError(PGNewError(CodeInternalError, ErrorText(e))))

\* Mutation of NewError: an unrecognized error gets no detail.
NewError_NoFallback(e) ==
  IF GetPGCause(e).ok THEN ErrorOf(Error_PGError(GetPGCause(e).pgErr))
  ELSE IF e.dyn = TypeRetryable THEN ErrorOf(Error_RetryableTxnError(e))
  ELSE ErrorOf(NoDetail)

\* Mutation of NewError: a database-error cause is re-wrapped as internal.
NewError_Rewrap(e) ==
  IF GetPGCause(e).ok
  THEN ErrorOf(Error_PGError(PGNewError(CodeInternalError, GetPGCause(e).pgErr.Message)))
  ELSE IF e.dyn = TypeRetryable THEN ErrorOf(Error_RetryableTxnError(e))
  ELSE ErrorOf(Error_PGError(PGNewError(CodeInternalError, ErrorText(e))))

\* Mutation of NewError: a retryable error falls through to the internal error.
NewError_NoRetryable(e) ==
  IF GetPGCause(e).ok THEN ErrorOf(Error_PGError(GetPGCause(e).pgErr))
  ELSE ErrorOf(Error_PGError(PGNewError(CodeInternalError, ErrorText(e))))

\* Mutation of NewError: the synthesized error has another code.
NewError_WrongCode(e) ==
  IF GetPGCause(e).ok THEN ErrorOf(Error_PGError(GetPGCause(e).pgErr))
  ELSE IF e.dyn = TypeRetryable THEN ErrorOf(Error_RetryableTxnError(e))
  ELSE ErrorOf(Error_PGError(PGNewError(CodeSyntaxError, ErrorText(e))))

NewError(e) ==
  IF GetPGCause(e).ok THEN ErrorOf(Error_PGError(GetPGCause(e).pgErr))
  ELSE IF e.dyn = TypeRetryable THEN ErrorOf(Error_RetryableTxnError(e))
  ELSE ErrorOf(Error_PGError(PGNewError(CodeInternalError, ErrorText(e))))

\* Mutation of ErrorDetail: an unknown detail kind yields nil.
ErrorDetail_DefaultNil(e) ==
  IF e.nil THEN Returned(NilErr)
  ELSE IF e.Detail.kind = "Error_PGError" THEN Returned(PGAsError(e.Detail.PGError))
  ELSE IF e.Detail.kind = "Error_RetryableTxnError" THEN Returned(e.Detail.RetryableTxnError)
  ELSE Returned(NilErr)

ErrorDetail(e) ==
  IF e.nil THEN Returned(NilErr)
  ELSE IF e.Detail.kind = "Error_PGError" THEN Returned(PGAsError(e.Detail.PGError))
  ELSE IF e.Detail.kind = "Error_RetryableTxnError" THEN Returned(e.Detail.RetryableTxnError)
  ELSE Panicked("bad error detail")

\* Mutation of String: no sentinel for a nil detail.
String_NoSentinel(e) ==
  LET d == ErrorDetail(e)
  IN IF d.state = "panicked" THEN d
     ELSE IF d.val # NilErr THEN Returned(ErrorText(d.val))
     ELSE Returned("")

String(e) ==
  LET d == ErrorDetail(e)
  IN IF d.state = "panicked" THEN d
     ELSE IF d.val # NilErr THEN Returned(ErrorText(d.val))
     ELSE Returned("<nil>")

\* Envelopes that arrive rather than being built here by NewError.
ReceivedEnvelopes ==
  {NilError, ErrorOf(NoDetail), ErrorOf(ForeignDetail)}
  \cup {ErrorOf(Error_PGError(c)) : c \in PGErrors}
  \cup {ErrorOf(Error_RetryableTxnError(r)) : r \in {e \in Errors : e.dyn = TypeRetryable}}

AnError == [dyn |-> TypeOther, cause |-> NoPGCause, msg |-> "boom"]

\* ----------------------------------------------------------- expression
\* Largest ordinal reference (@1, @2, ..) that is explored.
MaxOrdinal == 2

\* A nil LocalExpr.
NilExpr == [node |-> "nil", left |-> 0, right |-> 0]
\* Typed expressions: an ordinal reference @i, and a comparison @i = @j.
IndexedVar(i) == [node |-> "IndexedVar", left |-> i, right |-> 0]
ComparisonExpr(i, j) == [node |-> "ComparisonExpr", left |-> i, right |-> j]
TypedExprs ==
  {IndexedVar(i) : i \in 1..MaxOrdinal}
  \cup {ComparisonExpr(i, j) : i, j \in 1..MaxOrdinal}

\* ctx.FormatNode(expr); ctx.CloseAndGetString() under FmtCheckEquivalence.
FormatNode(expr) ==
  IF expr.node = "IndexedVar" THEN "@" \o ToString(expr.left)
  ELSE "@" \o ToString(expr.left) \o " = @" \o ToString(expr.right)

\* Values of the Expr field: unset, ordinal references, and a text that is
\* the sentinel of String.
ExprTexts == {"", "none"} \cup {"@" \o ToString(i) : i \in 1..MaxOrdinal}
Versions == {"", "1"}

Expressions == [Version : Versions, Expr : ExprTexts, LocalExpr : TypedExprs \cup {NilExpr}]

\* Mutation of Expression.Empty: only the textual form is looked at.
Expression_Empty_ExprOnly(e) == e.Expr = ""

Expression_Empty(e) == e.Expr = "" /\ e.LocalExpr = NilExpr

\* Mutation of Expression.String: the textual form is preferred.
Expression_String_TextFirst(e) ==
  IF e.Expr # "" THEN e.Expr
  ELSE IF e.LocalExpr # NilExpr THEN FormatNode(e.LocalExpr)
  ELSE "none"

Expression_String(e) ==
  IF e.LocalExpr # NilExpr THEN FormatNode(e.LocalExpr)
  ELSE IF e.Expr # "" THEN e.Expr
  ELSE "none"

\* ------------------------------------------------------------ behaviour
\* No expression is at hand.
ExpressionSideIdle ==
  /\ expression = [Version |-> "", Expr |-> "", LocalExpr |-> NilExpr]
  /\ exprString = NotRun
  /\ exprEmpty = NotRun

\* Nothing has failed and no envelope is at hand.
ErrorSideIdle ==
  /\ err = AnError
  /\ envelope = NilError
  /\ envFrom = "received"
  /\ detail = NotRun
  /\ rendered = NotRun

\* No ordering is at hand.
OrderingSideIdle ==
  /\ columnOrdering = << >>
  /\ planToStreamColMap = NilMap
  /\ specOrdering = EmptySpec
  /\ specFrom = "wire"
  /\ ordering = NotRun

\* A node either plans (an ordering and a remap from the planner) or receives
\* an Ordering from the wire.
InitOrdering ==
  /\ \/ /\ columnOrdering \in ColumnOrderings
        /\ planToStreamColMap \in ColMaps
        /\ specOrdering = EmptySpec
     \/ /\ columnOrdering = << >>
        /\ planToStreamColMap = NilMap
        /\ specOrdering \in WireOrderings
  /\ specFrom = "wire"
  /\ ordering = NotRun
  /\ ErrorSideIdle
  /\ ExpressionSideIdle
  /\ op = "none"
  /\ panicked = NoPanic

\* A node either has an error to report or receives an envelope.
InitError ==
  /\ \/ /\ err \in Errors
        /\ envelope = NilError
     \/ /\ err = AnError
        /\ envelope \in ReceivedEnvelopes
  /\ envFrom = "received"
  /\ detail = NotRun
  /\ rendered = NotRun
  /\ OrderingSideIdle
  /\ ExpressionSideIdle
  /\ op = "none"
  /\ panicked = NoPanic

\* A panic aborts the operation: nothing is returned and nothing more runs.
Abort(name, msg) ==
  /\ op' = name
  /\ panicked' = msg
  /\ UNCHANGED <<orderingVars, errorVars, exprVars>>

ProduceSpec(name, r) ==
  IF r.state = "panicked"
  THEN Abort(name, r.msg)
  ELSE /\ specOrdering' = r.val
       /\ specFrom' = name
       /\ ordering' = NotRun
       /\ op' = name
       /\ UNCHANGED <<columnOrdering, planToStreamColMap, errorVars, exprVars, panicked>>

ConvertToSpecOrderingStep ==
  /\ panicked = NoPanic
  /\ ProduceSpec("ConvertToSpecOrdering", ConvertToSpecOrdering(columnOrdering))

ConvertToMappedSpecOrderingStep ==
  /\ panicked = NoPanic
  /\ ProduceSpec("ConvertToMappedSpecOrdering",
                 ConvertToMappedSpecOrdering(columnOrdering, planToStreamColMap))

ConvertToColumnOrderingStep ==
  /\ panicked = NoPanic
  /\ ordering' = Returned(ConvertToColumnOrdering(specOrdering))
  /\ op' = "ConvertToColumnOrdering"
  /\ UNCHANGED <<columnOrdering, planToStreamColMap, specOrdering, specFrom,
                 errorVars, exprVars, panicked>>

NewErrorStep ==
  /\ panicked = NoPanic
  /\ envelope' = NewError(err)
  /\ envFrom' = "NewError"
  /\ detail' = NotRun
  /\ rendered' = NotRun
  /\ op' = "NewError"
  /\ UNCHANGED <<err, orderingVars, exprVars, panicked>>

ErrorDetailStep ==
  /\ panicked = NoPanic
  /\ LET r == ErrorDetail(envelope)
     IN IF r.state = "panicked"
        THEN Abort("ErrorDetail", r.msg)
        ELSE /\ detail' = r
             /\ op' = "ErrorDetail"
             /\ UNCHANGED <<err, envelope, envFrom, rendered, orderingVars, exprVars, panicked>>

StringStep ==
  /\ panicked = NoPanic
  /\ LET r == String(envelope)
     IN IF r.state = "panicked"
        THEN Abort("String", r.msg)
        ELSE /\ rendered' = r
             /\ op' = "String"
             /\ UNCHANGED <<err, envelope, envFrom, detail, orderingVars, exprVars, panicked>>

\* A node holds an Expression of a plan.
InitExpression ==
  /\ expression \in Expressions
  /\ exprString = NotRun
  /\ exprEmpty = NotRun
  /\ OrderingSideIdle
  /\ ErrorSideIdle
  /\ op = "none"
  /\ panicked = NoPanic

Expression_StringStep ==
  /\ panicked = NoPanic
  /\ exprString' = Returned(Expression_String(expression))
  /\ op' = "Expression.String"
  /\ UNCHANGED <<expression, exprEmpty, orderingVars, errorVars, panicked>>

Expression_EmptyStep ==
  /\ panicked = NoPanic
  /\ exprEmpty' = Returned(Expression_Empty(expression))
  /\ op' = "Expression.Empty"
  /\ UNCHANGED <<expression, exprString, orderingVars, errorVars, panicked>>

NextOrdering ==
  \/ ConvertToSpecOrderingStep
  \/ ConvertToMappedSpecOrderingStep
  \/ ConvertToColumnOrderingStep

NextError ==
  \/ NewErrorStep
  \/ ErrorDetailStep
  \/ StringStep

SpecOrdering == InitOrdering /\ [][NextOrdering]_vars
SpecError == InitError /\ [][NextError]_vars

NextExpression ==
  \/ Expression_StringStep
  \/ Expression_EmptyStep

SpecExpression == InitExpression /\ [][NextExpression]_vars

TypeOK ==
  /\ panicked \in {NoPanic, "index out of range",
                   "column in sort ordering not available", "bad error detail"}
  /\ op \in {"none", "ConvertToSpecOrdering", "ConvertToMappedSpecOrdering",
             "ConvertToColumnOrdering", "NewError", "ErrorDetail", "String",
             "Expression.String", "Expression.Empty"}

\* --------------------------------------------------------------- claims
HasPGCause(e) == e.cause # NoPGCause
IsRetryable(e) == e.dyn = TypeRetryable
Classified == envFrom = "NewError"

\* C1: NewError has a fixed priority.  An error that both carries a
\* database-error cause and is a retryable-transaction error is enveloped as
\* the PGError variant, and the RetryableTxnError variant is produced only
\* for an error without a database-error cause.
C1_DatabaseErrorFirst ==
  Classified =>
    /\ (HasPGCause(err) /\ IsRetryable(err)) => envelope.Detail.kind = "Error_PGError"
    /\ envelope.Detail.kind = "Error_RetryableTxnError" => ~HasPGCause(err)

C1_Witness ==
  /\ Classified
  /\ HasPGCause(err)
  /\ IsRetryable(err)
  /\ envelope.Detail.kind = "Error_PGError"

\* C2: classification is total.  For every (non-nil) error, also one of
\* neither shape, NewError returns an envelope with exactly one of the two
\* variants populated, nothing panics, and ErrorDetail on that envelope
\* returns a non-nil error.
C2_ClassificationTotal ==
  Classified =>
    /\ panicked = NoPanic
    /\ ~envelope.nil
    /\ \/ /\ envelope.Detail.kind = "Error_PGError"
          /\ envelope.Detail.PGError # NoPGCause
          /\ envelope.Detail.RetryableTxnError = NilErr
       \/ /\ envelope.Detail.kind = "Error_RetryableTxnError"
          /\ envelope.Detail.RetryableTxnError # NilErr
          /\ envelope.Detail.PGError = NoPGCause
    /\ op = "ErrorDetail" => (detail.state = "returned" /\ detail.val # NilErr)

C2_Witness ==
  /\ Classified
  /\ ~HasPGCause(err)
  /\ ~IsRetryable(err)
  /\ op = "ErrorDetail"
  /\ detail.state = "returned"
  /\ detail.val # NilErr

\* C3: for an error with a database-error cause c, ErrorDetail of its
\* envelope is c itself: a *pgerror.Error with c's code and c's message.
C3_CauseUnchanged ==
  (Classified /\ HasPGCause(err) /\ detail.state = "returned") =>
    /\ detail.val.dyn = TypePGError
    /\ detail.val.cause.Code = err.cause.Code
    /\ detail.val.cause.Message = err.cause.Message
    /\ detail.val.msg = err.cause.Message

\* The cause has a code other than the internal one, the error is a wrapper
\* around it with a text of its own.
C3_Witness ==
  /\ Classified
  /\ HasPGCause(err)
  /\ err.dyn = TypeOther
  /\ err.cause.Code # CodeInternalError
  /\ err.msg # err.cause.Message
  /\ detail.state = "returned"
  /\ detail.val.cause = err.cause

\* C4: a retryable-transaction error r without a database-error cause is
\* enveloped as the RetryableTxnError variant holding r, and ErrorDetail on
\* the envelope returns r.
C4_RetryableRoundTrip ==
  (Classified /\ IsRetryable(err) /\ ~HasPGCause(err)) =>
    /\ envelope.Detail.kind = "Error_RetryableTxnError"
    /\ envelope.Detail.RetryableTxnError = err
    /\ detail.state = "returned" => detail.val = err

C4_Witness ==
  /\ Classified
  /\ IsRetryable(err)
  /\ ~HasPGCause(err)
  /\ detail.state = "returned"
  /\ detail.val = err

\* C5: an error of neither shape is enveloped as a PGError with the internal
\* error code and the error's message, and String of the envelope is that
\* message.
C5_InternalError ==
  (Classified /\ ~IsRetryable(err) /\ ~HasPGCause(err)) =>
    /\ envelope.Detail.kind = "Error_PGError"
    /\ envelope.Detail.PGError.Code = CodeInternalError
    /\ envelope.Detail.PGError.Message = err.msg
    /\ rendered.state = "returned" => rendered.val = err.msg

C5_Witness ==
  /\ Classified
  /\ ~IsRetryable(err)
  /\ ~HasPGCause(err)
  /\ envelope.Detail.PGError.Code = CodeInternalError
  /\ rendered.state = "returned"
  /\ rendered.val = "boom"

RoundTripped ==
  /\ specFrom = "ConvertToSpecOrdering"
  /\ ordering.state = "returned"

\* C6 as claimed: ConvertToColumnOrdering(ConvertToSpecOrdering(o)) is o for
\* every ColumnOrdering o, whatever column indices it holds.
C6_RoundTripAnyIndex ==
  RoundTripped => ordering.val = columnOrdering

\* C6: ConvertToColumnOrdering(ConvertToSpecOrdering(o)) is o, element by
\* element and in the same order, for every ColumnOrdering o whose column
\* indices are in 0 .. 2^32 - 1.
C6_RoundTripUint32Index ==
  (RoundTripped /\ \A i \in 1..Len(columnOrdering) : FitsUint32(columnOrdering[i].ColIdx)) =>
    /\ Len(ordering.val) = Len(columnOrdering)
    /\ \A i \in 1..Len(columnOrdering) : ordering.val[i] = columnOrdering[i]

C6_Witness ==
  /\ RoundTripped
  /\ Len(columnOrdering) = 2
  /\ \A i \in 1..2 : FitsUint32(columnOrdering[i].ColIdx)
  /\ columnOrdering[1] # columnOrdering[2]
  /\ columnOrdering[1].Direction = Descending
  /\ ordering.val = columnOrdering

RemapPresent == planToStreamColMap # NilMap
\* Every column of the ordering indexes an entry of the remap.
AllLookedUp ==
  \A i \in 1..Len(columnOrdering) : InRange(columnOrdering[i].ColIdx, planToStreamColMap)
\* Some column of the ordering looks up the entry -1.
LooksUpMinusOne ==
  \E i \in 1..Len(columnOrdering) :
    /\ InRange(columnOrdering[i].ColIdx, planToStreamColMap)
    /\ planToStreamColMap.elems[columnOrdering[i].ColIdx[2] + 1] = MinusOne

\* C7: with a remap m present, when every column of o looks up an entry of m
\* and none of these is -1, ConvertToMappedSpecOrdering returns, and the
\* result decoded by ConvertToColumnOrdering has at position i the column
\* index m[o[i].ColIdx] and the direction of o[i]; when some column looks up
\* -1 the call panics and returns no ordering.
C7_RemapCorrect ==
  RemapPresent =>
    /\ (AllLookedUp /\ ~LooksUpMinusOne) =>
         /\ panicked = NoPanic
         /\ (specFrom = "ConvertToMappedSpecOrdering" /\ ordering.state = "returned") =>
              /\ Len(ordering.val) = Len(columnOrdering)
              /\ \A i \in 1..Len(columnOrdering) :
                   /\ ordering.val[i].ColIdx =
                        planToStreamColMap.elems[columnOrdering[i].ColIdx[2] + 1]
                   /\ ordering.val[i].Direction = columnOrdering[i].Direction
    /\ LooksUpMinusOne =>
         /\ specFrom # "ConvertToMappedSpecOrdering"
         /\ op = "ConvertToMappedSpecOrdering" => panicked # NoPanic
    /\ panicked = "column in sort ordering not available" => LooksUpMinusOne

\* Two columns are remapped to indices other than their own.
C7_Witness ==
  /\ RemapPresent
  /\ specFrom = "ConvertToMappedSpecOrdering"
  /\ ordering.state = "returned"
  /\ Len(columnOrdering) = 2
  /\ \A i \in 1..2 : ordering.val[i].ColIdx # columnOrdering[i].ColIdx
  /\ ordering.val[1].ColIdx # ordering.val[2].ColIdx

\* C8: ConvertToColumnOrdering keeps length and order, copies each column
\* index, decodes ASC as Ascending and every other direction value as
\* Descending, and never fails.
C8_DecodeBinary ==
  op = "ConvertToColumnOrdering" =>
    /\ panicked = NoPanic
    /\ ordering.state = "returned"
    /\ Len(ordering.val) = Len(specOrdering.Columns)
    /\ \A i \in 1..Len(specOrdering.Columns) :
         /\ ordering.val[i].ColIdx = specOrdering.Columns[i].ColIdx
         /\ specOrdering.Columns[i].Direction = Ordering_Column_ASC
              => ordering.val[i].Direction = Ascending
         /\ specOrdering.Columns[i].Direction # Ordering_Column_ASC
              => ordering.val[i].Direction = Descending

C8_Witness ==
  /\ op = "ConvertToColumnOrdering"
  /\ Len(specOrdering.Columns) = 2
  /\ specOrdering.Columns[1].Direction = Ordering_Column_Unrecognised
  /\ specOrdering.Columns[2].Direction = Ordering_Column_ASC
  /\ ordering.val[1].Direction = Descending
  /\ ordering.val[2].Direction = Ascending

DetailIsVariant ==
  ~envelope.nil /\ envelope.Detail.kind \in {"Error_PGError", "Error_RetryableTxnError"}
CarriedError ==
  IF envelope.Detail.kind = "Error_PGError"
  THEN PGAsError(envelope.Detail.PGError)
  ELSE envelope.Detail.RetryableTxnError

\* C9 as claimed: String returns the detail's message when a detail is
\* present and "<nil>" when none is, for a nil envelope and for an envelope
\* whose Detail is unset alike.
C9_SentinelWhenUnset ==
  (op = "String" /\ (envelope.nil \/ envelope.Detail = NoDetail)) =>
    rendered = Returned("<nil>")

\* C9: String returns the message of the carried error when the detail is
\* one of the two variants and "<nil>" for a nil envelope; for an envelope
\* that is not nil and whose Detail is unset (or of another kind) it panics
\* in ErrorDetail and returns nothing.
C9_Render ==
  op = "String" =>
    /\ envelope.nil => rendered = Returned("<nil>")
    /\ DetailIsVariant => rendered = Returned(CarriedError.msg)
    /\ (~envelope.nil /\ ~DetailIsVariant) =>
         (rendered = NotRun /\ panicked = "bad error detail")

C9_Witness ==
  /\ op = "String"
  /\ envelope.nil
  /\ rendered = Returned("<nil>")

\* C10: ErrorDetail returns nil for a nil envelope, the carried error for
\* the PGError and RetryableTxnError variants, and panics for a detail of
\* any other kind, for which it returns nothing.
C10_DetailClosedSet ==
  op = "ErrorDetail" =>
    /\ envelope.nil => detail = Returned(NilErr)
    /\ DetailIsVariant => detail = Returned(CarriedError)
    /\ (~envelope.nil /\ ~DetailIsVariant) =>
         (detail = NotRun /\ panicked = "bad error detail")

C10_Witness ==
  /\ op = "ErrorDetail"
  /\ ~envelope.nil
  /\ envelope.Detail.kind = "foreign"
  /\ detail = NotRun
  /\ panicked = "bad error detail"

LocalPresent == expression.LocalExpr # NilExpr

\* C11: Expression.String has a strict precedence.  With a local form it
\* returns the formatting of the local form, whatever the textual form is;
\* without one it returns a non-empty textual form verbatim; with neither it
\* returns "none".
C11_StringPrecedence ==
  op = "Expression.String" =>
    /\ exprString.state = "returned"
    /\ LocalPresent => exprString.val = FormatNode(expression.LocalExpr)
    /\ (~LocalPresent /\ expression.Expr # "") => exprString.val = expression.Expr
    /\ (~LocalPresent /\ expression.Expr = "") => exprString.val = "none"

\* Both forms are set and differ; the local one is rendered.
C11_Witness ==
  /\ op = "Expression.String"
  /\ LocalPresent
  /\ expression.Expr # ""
  /\ expression.Expr # FormatNode(expression.LocalExpr)
  /\ exprString.val = FormatNode(expression.LocalExpr)
  /\ exprString.val # expression.Expr

\* C12: Expression.Empty is true exactly when the textual form is the empty
\* string and the local form is absent; either form set, alone or together,
\* makes it false, whatever the Version field holds.
C12_EmptyIffNeither ==
  op = "Expression.Empty" =>
    /\ exprEmpty.state = "returned"
    /\ exprEmpty.val = TRUE <=> (expression.Expr = "" /\ ~LocalPresent)
    /\ expression.Expr # "" => exprEmpty.val = FALSE
    /\ LocalPresent => exprEmpty.val = FALSE

\* A Version is set, neither form is: the expression is empty.
C12_Witness ==
  /\ op = "Expression.Empty"
  /\ expression.Version # ""
  /\ expression.Expr = ""
  /\ ~LocalPresent
  /\ exprEmpty.val = TRUE
====
